---- MODULE Spec2Model ----
(***************************************************************************)
(* Model of screener.py: the batch screening of the universe list on a     *)
(* ThreadPoolExecutor, the subscription loop that opens a live feed for    *)
(* every selected symbol, and the SIGINT handler that tears the feeds      *)
(* down.  Python runs signal handlers on the main thread between two       *)
(* bytecodes, so the handler is a frame pushed on top of whatever the main *)
(* thread is doing; the worker threads keep running meanwhile.             *)
(***************************************************************************)
EXTENDS Integers, Sequences, FiniteSets, TLC

\* ------------------------------------------------------------- bounds ---
\* longest universe list explored
MaxN == 2
\* number of SIGINT deliveries explored
MaxSignals == 2

\* -------------------------------------------------- program constants ---
MAX_WORKERS == 3
\* rolling window of the long moving average, also the minimum series length
LONG_WINDOW == 200
\* rolling window of the short moving average
SHORT_WINDOW == 50
\* RSI threshold of the criteria
RSI_LIMIT == 70
\* day_high * 0.999, kept exact as 999/1000
NEAR_HIGH_NUM == 999
NEAR_HIGH_DEN == 1000

Symbols == {"A", "B"}

\* What a unit hands back through its future: the symbol, None, or an
\* exception stored in the future.
None == "None"
Raised == "Raised"
\* a future that is not done yet
Unset == "Unset"

\* ------------------------------------------------- provider responses ---
\* A response of tvl.get_hist: it raises, returns None, returns an empty
\* frame, or returns a frame.  A frame is described by what screen_stock
\* reads from it: its length, whether its columns are usable (a frame
\* without a 'close' column makes calculate_indicators raise), whether a
\* close among the last 50 bars before the last one is NaN, the last bar's
\* close, high and
\* volume, the means of the last 50 and 200 closes, the RSI of the last
\* bar and the mean volume.  Prices are in tenths, volumes in 100k.
Frame(n, ok, nan, c, h, m50, m200, r, v, av) ==
    [kind |-> "frame", len |-> n, columns_ok |-> ok, nan |-> nan, close |-> c,
     high |-> h, mean50 |-> m50, mean200 |-> m200, rsi |-> r, volume |-> v,
     mean_volume |-> av]

NoFrame(kind) ==
    [kind |-> kind, len |-> 0, columns_ok |-> TRUE, nan |-> FALSE, close |-> 0,
     high |-> 0, mean50 |-> 0, mean200 |-> 0, rsi |-> 0, volume |-> 0,
     mean_volume |-> 0]

PassingFrame == Frame(250, TRUE, FALSE, 1050, 1051, 1000, 980, 55, 20, 15)
OverboughtFrame == Frame(250, TRUE, FALSE, 1050, 1051, 1000, 980, 75, 20, 15)
ShortFrame == Frame(120, TRUE, FALSE, 1050, 1051, 1000, 980, 55, 20, 15)
MalformedFrame == Frame(250, FALSE, FALSE, 1050, 1051, 1000, 980, 55, 20, 15)

\* the responses of the concurrent runs
CoreResponses ==
    {NoFrame("raise"), NoFrame("none"), PassingFrame, OverboughtFrame, MalformedFrame}

\* the responses of the runs that explore screen_stock itself
ScreenResponses ==
    {NoFrame("raise"), NoFrame("none"), NoFrame("empty"), MalformedFrame}
    \cup { Frame(n, TRUE, nan, 1050, h, m50, m200, r, v, 15) :
             n \in {120, 199, 200, 250}, nan \in BOOLEAN, h \in {1050, 1051, 1052},
             m50 \in {1000, 1050}, m200 \in {980, 1060}, r \in {55, 70, 75},
             v \in {15, 20} }

VARIABLES
    stock_symbols,    \* the universe list load_stock_symbols returned
    resp,             \* symbol -> the provider's response for it
    max_workers,      \* the pool size the executor is built with
    pc,               \* where the main thread is
    submitted,        \* number of units handed to executor.submit
    unit,             \* unit index -> "unsubmitted" | "pending" | "running" | "done"
    result,           \* unit index -> what its future holds
    collected,        \* unit indices as_completed has yielded
    selected_stocks,  \* the pass-list
    reported,         \* the pass-list has been logged
    errors_logged,    \* number of "Error screening stock" lines
    k,                \* position of the subscription loop in selected_stocks
    feed,             \* position -> state of the feed new_seis returned for
                      \* it: "none" | "open" | "closed"
    consumer,         \* position -> state of the consumer new_consumer made
                      \* for it: "none" | "attached" | "detached"
    seis_list,        \* the tracked subscriptions (positions)
    stop_flag,        \* threading.Event
    handler,          \* stack of signal_handler frames, innermost last
    signals,          \* SIGINTs delivered
    pending_exc,      \* exception propagating out of the with-block
    del_calls,        \* position -> [consumer, seis]: calls made by teardown
    exit_code         \* status of the process once pc = "exited"

vars == <<stock_symbols, resp, max_workers, pc, submitted, unit, result, collected,
          selected_stocks, reported, errors_logged, k, feed, consumer, seis_list,
          stop_flag, handler, signals, pending_exc, del_calls, exit_code>>

\* ------------------------------------------------------ pure functions ---
\* what fetch_historical_data returns in place of a frame
NoData == NoFrame("None")

\* fetch_historical_data: None when get_hist raises (the except branch),
\* returns None or returns an empty frame; the frame otherwise.
fetch_historical_data(r) ==
    IF r.kind = "raise" THEN NoData
    ELSE IF r.kind = "none" \/ r.kind = "empty" THEN NoData
    ELSE r

\* calculate_indicators: the rolling means are NaN before their window is
\* full or when the window holds a NaN; a frame without the columns raises.
calculate_indicators(df) ==
    [raised |-> ~df.columns_ok,
     dma_50 |-> df.mean50,
     dma_50_nan |-> df.len < SHORT_WINDOW \/ df.nan,
     dma_200 |-> df.mean200,
     dma_200_nan |-> df.len < LONG_WINDOW \/ df.nan,
     rsi |-> df.rsi]

\* MeetsCriteria with rsi <= 70 in place of rsi < 70
MeetsCriteriaRsiInclusive(df, ind) ==
    /\ ~ind.dma_50_nan /\ df.close > ind.dma_50
    /\ ~ind.dma_200_nan /\ df.close > ind.dma_200
    /\ NEAR_HIGH_DEN * df.close >= NEAR_HIGH_NUM * df.high
    /\ ind.rsi <= RSI_LIMIT
    /\ df.volume > df.mean_volume

\* the condition of line 98; a comparison with NaN is False
MeetsCriteria(df, ind) ==
    /\ ~ind.dma_50_nan /\ df.close > ind.dma_50
    /\ ~ind.dma_200_nan /\ df.close > ind.dma_200
    /\ NEAR_HIGH_DEN * df.close >= NEAR_HIGH_NUM * df.high
    /\ ind.rsi < RSI_LIMIT
    /\ df.volume > df.mean_volume

\* screen_stock: the symbol when the criteria hold, None when they do not or
\* when there is no frame of at least 200 bars; an exception of
\* calculate_indicators is not caught here.
screen_stock(symbol, r) ==
    LET df == fetch_historical_data(r) IN
    IF df # NoData /\ df.len >= LONG_WINDOW
    THEN LET ind == calculate_indicators(df) IN
         IF ind.raised THEN Raised
         ELSE IF MeetsCriteria(df, ind) THEN symbol ELSE None
    ELSE None

\* ---------------------------------------------------------------- Init ---
Units == 1..Len(stock_symbols)

UniverseLists == UNION { [1..n -> Symbols] : n \in 0..MaxN }

InitRest ==
    /\ pc = "load"
    /\ submitted = 0
    /\ unit = [i \in 1..Len(stock_symbols) |-> "unsubmitted"]
    /\ result = [i \in 1..Len(stock_symbols) |-> Unset]
    /\ collected = {}
    /\ selected_stocks = <<>>
    /\ reported = FALSE
    /\ errors_logged = 0
    /\ k = 1
    /\ feed = [p \in 1..Len(stock_symbols) |-> "none"]
    /\ consumer = [p \in 1..Len(stock_symbols) |-> "none"]
    /\ seis_list = <<>>
    /\ stop_flag = FALSE
    /\ handler = <<>>
    /\ signals = 0
    /\ pending_exc = "none"
    /\ del_calls = [p \in 1..Len(stock_symbols) |-> [consumer |-> 0, seis |-> 0]]
    /\ exit_code = 0

\* The universe list is whatever the Symbol column holds (duplicates
\* included), each symbol has one provider response for the whole run, and
\* the pool size is explored from 1 up to the configured MAX_WORKERS.
Init ==
    /\ stock_symbols \in UniverseLists
    /\ resp \in [Symbols -> CoreResponses]
    /\ max_workers \in 1..MAX_WORKERS
    /\ InitRest

\* ------------------------------------------------------ the main thread ---
Ended == {"exited", "crashed"}

\* The main thread runs main() only while no signal_handler frame is on top.
MainRuns(at) == pc = at /\ handler = <<>>

Running == { i \in Units : unit[i] = "running" }

\* load_stock_symbols returned the list: the executor is entered when the
\* list is not empty, otherwise the warning is logged and main goes on to
\* the subscription loop.
Load ==
    /\ MainRuns("load")
    /\ pc' = IF stock_symbols # <<>> THEN "submit" ELSE "subscribe"
    /\ UNCHANGED <<stock_symbols, resp, max_workers, submitted, unit, result,
                   collected, selected_stocks, reported, errors_logged, k, feed,
                   consumer, seis_list, stop_flag, handler, signals, pending_exc,
                   del_calls, exit_code>>

\* load_stock_symbols caught an exception of read_excel: sys.exit(1)
LoadFails ==
    /\ MainRuns("load")
    /\ pc' = "exited"
    /\ exit_code' = 1
    /\ UNCHANGED <<stock_symbols, resp, max_workers, submitted, unit, result,
                   collected, selected_stocks, reported, errors_logged, k, feed,
                   consumer, seis_list, stop_flag, handler, signals, pending_exc,
                   del_calls>>

\* one executor.submit of the dict comprehension of line 118
Submit ==
    /\ MainRuns("submit")
    /\ submitted < Len(stock_symbols)
    /\ submitted' = submitted + 1
    /\ unit' = [unit EXCEPT ![submitted + 1] = "pending"]
    /\ pc' = IF submitted + 1 = Len(stock_symbols) THEN "collect" ELSE "submit"
    /\ UNCHANGED <<stock_symbols, resp, max_workers, result, collected,
                   selected_stocks, reported, errors_logged, k, feed, consumer,
                   seis_list, stop_flag, handler, signals, pending_exc, del_calls,
                   exit_code>>

\* Start with the executor spawning a thread per work item, whatever
\* max_workers is
StartUnbounded(i) ==
    /\ unit[i] = "pending"
    /\ \A j \in Units : unit[j] = "pending" => i <= j
    /\ unit' = [unit EXCEPT ![i] = "running"]
    /\ UNCHANGED <<stock_symbols, resp, max_workers, pc, submitted, result,
                   collected, selected_stocks, reported, errors_logged, k, feed,
                   consumer, seis_list, stop_flag, handler, signals, pending_exc,
                   del_calls, exit_code>>

\* a worker thread takes the oldest work item of the queue; the executor
\* has at most max_workers threads
Start(i) ==
    /\ unit[i] = "pending"
    /\ \A j \in Units : unit[j] = "pending" => i <= j
    /\ Cardinality(Running) < max_workers
    /\ unit' = [unit EXCEPT ![i] = "running"]
    /\ UNCHANGED <<stock_symbols, resp, max_workers, pc, submitted, result,
                   collected, selected_stocks, reported, errors_logged, k, feed,
                   consumer, seis_list, stop_flag, handler, signals, pending_exc,
                   del_calls, exit_code>>

\* the worker's screen_stock returns or raises; the future keeps the outcome
Finish(i) ==
    /\ unit[i] = "running"
    /\ unit' = [unit EXCEPT ![i] = "done"]
    /\ result' = [result EXCEPT ![i] = screen_stock(stock_symbols[i], resp[stock_symbols[i]])]
    /\ UNCHANGED <<stock_symbols, resp, max_workers, pc, submitted, collected,
                   selected_stocks, reported, errors_logged, k, feed, consumer,
                   seis_list, stop_flag, handler, signals, pending_exc, del_calls,
                   exit_code>>

\* HandleResult with the except clause of line 124 missing
HandleResultUncaught(r) ==
    IF r = Raised THEN "propagate"
    ELSE IF r # None THEN "append" ELSE "skip"

\* HandleResult with the test of line 122 missing
HandleResultUnfiltered(r) ==
    IF r = Raised THEN "logged" ELSE "append"

\* the body of the as_completed loop, lines 120-125: what becomes of a
\* future's outcome
HandleResult(r) ==
    IF r = Raised THEN "logged"
    ELSE IF r # None THEN "append" ELSE "skip"

\* as_completed yields a finished future and the loop body handles it
Collect(i) ==
    /\ MainRuns("collect")
    /\ unit[i] = "done"
    /\ i \notin collected
    /\ collected' = collected \cup {i}
    /\ LET how == HandleResult(result[i]) IN
       /\ selected_stocks' = IF how = "append" THEN Append(selected_stocks, result[i])
                             ELSE selected_stocks
       /\ errors_logged' = IF how = "logged" THEN errors_logged + 1 ELSE errors_logged
       /\ pc' = IF how = "propagate" THEN "drain" ELSE pc
       /\ pending_exc' = IF how = "propagate" THEN "error" ELSE pending_exc
    /\ UNCHANGED <<stock_symbols, resp, max_workers, submitted, unit, result,
                   reported, k, feed, consumer, seis_list, stop_flag, handler,
                   signals, del_calls, exit_code>>

\* BatchReturns with the loop left after the first future
BatchReturnsEarly ==
    /\ MainRuns("collect")
    /\ collected # {}
    /\ pc' = "log"
    /\ UNCHANGED <<stock_symbols, resp, max_workers, submitted, unit, result,
                   collected, selected_stocks, reported, errors_logged, k, feed,
                   consumer, seis_list, stop_flag, handler, signals, pending_exc,
                   del_calls, exit_code>>

\* as_completed is exhausted; the with-block's exit finds every unit done
BatchReturns ==
    /\ MainRuns("collect")
    /\ collected = Units
    /\ pc' = "log"
    /\ UNCHANGED <<stock_symbols, resp, max_workers, submitted, unit, result,
                   collected, selected_stocks, reported, errors_logged, k, feed,
                   consumer, seis_list, stop_flag, handler, signals, pending_exc,
                   del_calls, exit_code>>

\* Report with the list logged only when it has an entry
ReportIfAny ==
    /\ MainRuns("log")
    /\ reported' = (selected_stocks # <<>>)
    /\ pc' = "subscribe"
    /\ UNCHANGED <<stock_symbols, resp, max_workers, submitted, unit, result,
                   collected, selected_stocks, errors_logged, k, feed, consumer,
                   seis_list, stop_flag, handler, signals, pending_exc, del_calls,
                   exit_code>>

\* lines 127-128: the pass-list is logged
Report ==
    /\ MainRuns("log")
    /\ reported' = TRUE
    /\ pc' = "subscribe"
    /\ UNCHANGED <<stock_symbols, resp, max_workers, submitted, unit, result,
                   collected, selected_stocks, errors_logged, k, feed, consumer,
                   seis_list, stop_flag, handler, signals, pending_exc, del_calls,
                   exit_code>>

\* --------------------------------------------------- subscription loop ---
REST == <<stock_symbols, resp, max_workers, submitted, unit, result, collected,
          selected_stocks, reported, errors_logged, stop_flag, signals>>

\* NewSeis with the feed tracked as soon as it is opened
NewSeisTracked ==
    /\ MainRuns("subscribe")
    /\ k <= Len(selected_stocks)
    /\ feed' = [feed EXCEPT ![k] = "open"]
    /\ seis_list' = Append(seis_list, k)
    /\ pc' = "attach"
    /\ UNCHANGED <<REST, k, consumer, handler, pending_exc, del_calls, exit_code>>

\* line 133: tvl.new_seis returns a live feed for selected_stocks[k]
NewSeis ==
    /\ MainRuns("subscribe")
    /\ k <= Len(selected_stocks)
    /\ feed' = [feed EXCEPT ![k] = "open"]
    /\ pc' = "attach"
    /\ UNCHANGED <<REST, k, consumer, seis_list, handler, pending_exc, del_calls,
                   exit_code>>

\* line 133: tvl.new_seis raises; nothing in main catches it
NewSeisRaises ==
    /\ MainRuns("subscribe")
    /\ k <= Len(selected_stocks)
    /\ pc' = "crashed"
    /\ exit_code' = 1
    /\ UNCHANGED <<REST, k, feed, consumer, seis_list, handler, pending_exc,
                   del_calls>>

\* line 134: seis.new_consumer attaches the callback
NewConsumer ==
    /\ MainRuns("attach")
    /\ consumer' = [consumer EXCEPT ![k] = "attached"]
    /\ pc' = "append"
    /\ UNCHANGED <<REST, k, feed, seis_list, handler, pending_exc, del_calls,
                   exit_code>>

\* line 134: seis.new_consumer raises; nothing in main catches it
NewConsumerRaises ==
    /\ MainRuns("attach")
    /\ pc' = "crashed"
    /\ exit_code' = 1
    /\ UNCHANGED <<REST, k, feed, consumer, seis_list, handler, pending_exc,
                   del_calls>>

\* line 135: seis_list.append(seis)
AppendSeis ==
    /\ MainRuns("append")
    /\ seis_list' = Append(seis_list, k)
    /\ k' = k + 1
    /\ pc' = "subscribe"
    /\ UNCHANGED <<REST, feed, consumer, handler, pending_exc, del_calls, exit_code>>

\* the loop of line 132 is exhausted and main returns; the feeds' threads
\* keep the process alive
MainReturns ==
    /\ MainRuns("subscribe")
    /\ k > Len(selected_stocks)
    /\ pc' = "streaming"
    /\ UNCHANGED <<REST, k, feed, consumer, seis_list, handler, pending_exc,
                   del_calls, exit_code>>

\* main has returned and no feed is open: the interpreter exits
ProcessEnds ==
    /\ MainRuns("streaming")
    /\ \A p \in DOMAIN feed : feed[p] # "open"
    /\ pc' = "exited"
    /\ exit_code' = 0
    /\ UNCHANGED <<REST, k, feed, consumer, seis_list, handler, pending_exc,
                   del_calls>>

\* ------------------------------------------------------- signal_handler ---
TopFrame == handler[Len(handler)]
SetTop(f) == [handler EXCEPT ![Len(handler)] = f]

\* the main thread is inside the with-block of line 117, whose exit joins
\* the workers before an exception leaves it
InWith(p) == p \in {"submit", "collect", "drain"}

\* AfterSysExit with line 147 missing: the handler returns and main resumes
AfterHandlerReturn(p) == p

\* where the main thread is once SystemExit, raised by sys.exit(0) of line
\* 147, has left every handler frame
AfterSysExit(p) == IF InWith(p) THEN "drain" ELSE "exited"

\* where the main thread is once an exception of del_consumer or del_seis
\* has left every handler frame: main is never inside a try that catches it
\* while seis_list has an entry
AfterTeardownError(p) == IF InWith(p) THEN "drain" ELSE "crashed"

\* SIGINT is delivered: Python calls signal_handler on the main thread, on
\* top of main() or of a signal_handler frame that is already running
Signal ==
    /\ pc \notin Ended
    /\ signals < MaxSignals
    /\ signals' = signals + 1
    /\ handler' = Append(handler, [step |-> "flag", i |-> 1])
    /\ UNCHANGED <<stock_symbols, resp, max_workers, pc, submitted, unit, result,
                   collected, selected_stocks, reported, errors_logged, k, feed,
                   consumer, seis_list, stop_flag, pending_exc, del_calls, exit_code>>

\* WalkStep with sys.exit(0) placed inside the loop: the walk ends after its
\* first entry
WalkStepExitsEarly(i) == IF i <= Len(seis_list) /\ i <= 1 THEN "del_consumer" ELSE "exit"

\* the step after position i of the walk of line 144
WalkStep(i) == IF i <= Len(seis_list) THEN "del_consumer" ELSE "exit"

\* line 143: stop_flag.set()
HandlerSetsFlag ==
    /\ handler # <<>>
    /\ TopFrame.step = "flag"
    /\ stop_flag' = TRUE
    /\ handler' = SetTop([step |-> WalkStep(1), i |-> 1])
    /\ UNCHANGED <<stock_symbols, resp, max_workers, pc, submitted, unit, result,
                   collected, selected_stocks, reported, errors_logged, k, feed,
                   consumer, seis_list, signals, pending_exc, del_calls, exit_code>>

BumpDel(p, what) == [del_calls EXCEPT ![p][what] = @ + 1]

\* line 145: seis.del_consumer() returns
HandlerDelConsumer ==
    /\ handler # <<>>
    /\ TopFrame.step = "del_consumer"
    /\ LET p == seis_list[TopFrame.i] IN
       /\ consumer' = [consumer EXCEPT ![p] = "detached"]
       /\ del_calls' = BumpDel(p, "consumer")
    /\ handler' = SetTop([TopFrame EXCEPT !.step = "del_seis"])
    /\ UNCHANGED <<REST, pc, k, feed, seis_list, pending_exc, exit_code>>

\* line 145: seis.del_consumer() raises; the handler has no try, so the
\* exception leaves the handler and lands in the interrupted main thread
HandlerDelConsumerRaises ==
    /\ handler # <<>>
    /\ TopFrame.step = "del_consumer"
    /\ del_calls' = BumpDel(seis_list[TopFrame.i], "consumer")
    /\ handler' = <<>>
    /\ pc' = AfterTeardownError(pc)
    /\ pending_exc' = IF pc' = "drain" THEN "error" ELSE pending_exc
    /\ exit_code' = IF pc' = "crashed" THEN 1 ELSE exit_code
    /\ UNCHANGED <<REST, k, feed, consumer, seis_list>>

\* line 146: seis.del_seis() returns; the walk moves to the next entry
HandlerDelSeis ==
    /\ handler # <<>>
    /\ TopFrame.step = "del_seis"
    /\ LET p == seis_list[TopFrame.i] IN
       /\ feed' = [feed EXCEPT ![p] = "closed"]
       /\ del_calls' = BumpDel(p, "seis")
    /\ handler' = SetTop([step |-> WalkStep(TopFrame.i + 1), i |-> TopFrame.i + 1])
    /\ UNCHANGED <<REST, pc, k, consumer, seis_list, pending_exc, exit_code>>

\* line 146: seis.del_seis() raises
HandlerDelSeisRaises ==
    /\ handler # <<>>
    /\ TopFrame.step = "del_seis"
    /\ del_calls' = BumpDel(seis_list[TopFrame.i], "seis")
    /\ handler' = <<>>
    /\ pc' = AfterTeardownError(pc)
    /\ pending_exc' = IF pc' = "drain" THEN "error" ELSE pending_exc
    /\ exit_code' = IF pc' = "crashed" THEN 1 ELSE exit_code
    /\ UNCHANGED <<REST, k, feed, consumer, seis_list>>

\* line 147: sys.exit(0) raises SystemExit through every handler frame and
\* through main
HandlerExits ==
    /\ handler # <<>>
    /\ TopFrame.step = "exit"
    /\ handler' = <<>>
    /\ pc' = AfterSysExit(pc)
    /\ pending_exc' = IF pc' = "drain" THEN "SystemExit" ELSE pending_exc
    /\ exit_code' = IF pc' = "exited" THEN 0 ELSE exit_code
    /\ UNCHANGED <<REST, k, feed, consumer, seis_list, del_calls>>

\* DrainDone with shutdown(wait=False): the exception leaves main without
\* the workers being joined
DrainDoneNoWait ==
    /\ MainRuns("drain")
    /\ pc' = IF pending_exc = "SystemExit" THEN "exited" ELSE "crashed"
    /\ exit_code' = IF pending_exc = "SystemExit" THEN 0 ELSE 1
    /\ UNCHANGED <<REST, k, feed, consumer, seis_list, handler, pending_exc,
                   del_calls>>

\* the exit of the with-block (shutdown(wait=True)) has joined the workers:
\* every submitted unit is done and the exception leaves main
DrainDone ==
    /\ MainRuns("drain")
    /\ \A i \in 1..submitted : unit[i] = "done"
    /\ pc' = IF pending_exc = "SystemExit" THEN "exited" ELSE "crashed"
    /\ exit_code' = IF pending_exc = "SystemExit" THEN 0 ELSE 1
    /\ UNCHANGED <<REST, k, feed, consumer, seis_list, handler, pending_exc,
                   del_calls>>

Next ==
    \/ Load
    \/ LoadFails
    \/ Submit
    \/ \E i \in Units : Start(i)
    \/ \E i \in Units : Finish(i)
    \/ \E i \in Units : Collect(i)
    \/ BatchReturns
    \/ Report
    \/ NewSeis
    \/ NewSeisRaises
    \/ NewConsumer
    \/ NewConsumerRaises
    \/ AppendSeis
    \/ MainReturns
    \/ ProcessEnds
    \/ Signal
    \/ HandlerSetsFlag
    \/ HandlerDelConsumer
    \/ HandlerDelConsumerRaises
    \/ HandlerDelSeis
    \/ HandlerDelSeisRaises
    \/ HandlerExits
    \/ DrainDone

Spec == Init /\ [][Next]_vars

\* The runs that explore screen_stock: one symbol, every response.
InitScreen ==
    /\ stock_symbols = <<"A">>
    /\ resp \in { f \in [Symbols -> ScreenResponses] :
                     \A s \in Symbols \ {"A"} : f[s] = NoFrame("none") }
    /\ max_workers = MAX_WORKERS
    /\ InitRest

SpecScreen == InitScreen /\ [][Next]_vars

\* ---------------------------------------------------------------- claims ---
SymbolOf(i) == stock_symbols[i]
ResponseOf(i) == resp[stock_symbols[i]]
Selected == { selected_stocks[a] : a \in 1..Len(selected_stocks) }
Tracked == { seis_list[a] : a \in 1..Len(seis_list) }
AfterBatch == {"log", "subscribe", "attach", "append", "streaming", "crashed"}

\* C1: a unit whose fetch returns nothing, whose fetch raises or whose
\* evaluation raises neither stops another unit nor the batch loop: when the
\* batch is over every unit is done and was handled by the loop, every raised
\* unit was logged, and the with-block is only ever left early by SystemExit
\* of the signal handler.
C1_FailureIsolation ==
    /\ pc \in AfterBatch =>
          \A i \in Units : unit[i] = "done" /\ result[i] # Unset /\ i \in collected
    /\ pc = "drain" => pending_exc = "SystemExit" /\ signals > 0
    /\ errors_logged = Cardinality({ i \in collected : result[i] = Raised })

C1_Witness ==
    /\ pc = "log"
    /\ \E i, j \in Units :
          /\ result[i] = Raised
          /\ ResponseOf(j).kind = "frame" /\ result[j] = SymbolOf(j)
          /\ selected_stocks = <<SymbolOf(j)>>

\* C2: when the batch returns, the pass-list holds each symbol at most once.
C2_NoDuplicates ==
    pc = "log" =>
       \A a, b \in 1..Len(selected_stocks) :
          a # b => selected_stocks[a] # selected_stocks[b]

\* the series of symbol s satisfies the screening predicate
Satisfies(s) ==
    /\ resp[s].kind = "frame"
    /\ resp[s].len >= LONG_WINDOW
    /\ resp[s].columns_ok
    /\ ~resp[s].nan
    /\ resp[s].close > resp[s].mean50
    /\ resp[s].close > resp[s].mean200
    /\ NEAR_HIGH_DEN * resp[s].close >= NEAR_HIGH_NUM * resp[s].high
    /\ resp[s].rsi < RSI_LIMIT
    /\ resp[s].volume > resp[s].mean_volume

\* C3: after an uninterrupted batch the pass-list holds, as a set, exactly the
\* symbols of the universe whose series satisfy the predicate, whatever the
\* completion order and the pool size; two units of the same symbol get the
\* same verdict.
C3_DeterministicContent ==
    /\ pc = "log" =>
          Selected = { s \in { SymbolOf(i) : i \in Units } : Satisfies(s) }
    /\ \A i, j \in Units :
          unit[i] = "done" /\ unit[j] = "done" /\ SymbolOf(i) = SymbolOf(j)
             => result[i] = result[j]

C3_Witness ==
    /\ pc = "log"
    /\ Len(stock_symbols) >= 2
    /\ SymbolOf(1) # SymbolOf(2)
    /\ selected_stocks = <<SymbolOf(2), SymbolOf(1)>>

\* unit i is done on a series of at least 200 bars whose indicators are
\* defined
Evaluated(i) ==
    /\ unit[i] = "done"
    /\ ResponseOf(i).kind = "frame"
    /\ ResponseOf(i).len >= LONG_WINDOW
    /\ ResponseOf(i).columns_ok
    /\ ~ResponseOf(i).nan

\* C4: on a series of at least 200 bars with defined indicators the unit
\* returns the symbol (Pass) exactly when close > short MA, close > long MA,
\* 1000 * close >= 999 * high, momentum < 70 and volume > mean volume all
\* hold, and returns None (Fail) as soon as one of them does not.
C4_PassIffAllFive ==
    \A i \in Units :
       Evaluated(i) =>
          LET r == ResponseOf(i)
              all == /\ r.close > r.mean50
                     /\ r.close > r.mean200
                     /\ 1000 * r.close >= 999 * r.high
                     /\ r.rsi < 70
                     /\ r.volume > r.mean_volume
          IN  /\ all => result[i] = SymbolOf(i)
              /\ ~all => result[i] = None

\* the scenario of the overbought series: momentum 75, the other four hold
C4_Witness ==
    \E i \in Units :
       /\ Evaluated(i)
       /\ ResponseOf(i).rsi = 75
       /\ ResponseOf(i).close > ResponseOf(i).mean50
       /\ ResponseOf(i).close > ResponseOf(i).mean200
       /\ 1000 * ResponseOf(i).close >= 999 * ResponseOf(i).high
       /\ ResponseOf(i).volume > ResponseOf(i).mean_volume
       /\ result[i] = None

\* C5: a unit on a series of fewer than 200 bars ends in a verdict that is
\* neither Pass (the symbol) nor Fail (what the unit returns for the
\* overbought series of 250 bars).
C5_ShortSeriesUnavailable ==
    \A i \in Units :
       unit[i] = "done" /\ ResponseOf(i).kind = "frame" /\ ResponseOf(i).len < LONG_WINDOW
          => /\ result[i] # SymbolOf(i)
             /\ result[i] # screen_stock(SymbolOf(i), OverboughtFrame)

\* C6: once signal_handler has started, no step opens a feed or attaches a
\* consumer.
C6_NoSubscribeAfterStop ==
    [][signals > 0 =>
          \A p \in DOMAIN feed :
             /\ feed'[p] = "open" => feed[p] = "open"
             /\ consumer'[p] = "attached" => consumer[p] = "attached"]_vars

\* the signal came while a selected symbol had no feed yet, and the process
\* has exited without opening one
C6_Witness ==
    /\ signals > 0
    /\ pc = "exited"
    /\ \E p \in 1..Len(selected_stocks) : feed[p] = "none" /\ consumer[p] = "none"
    /\ \E p \in 1..Len(selected_stocks) : feed[p] = "closed"

\* C7: when the process has exited through the signal handler, every feed
\* that was opened is tracked in seis_list, its consumer is detached and it
\* is closed.
C7_NoFeedOutlivesShutdown ==
    pc = "exited" /\ signals > 0 =>
       \A p \in DOMAIN feed :
          feed[p] # "none" =>
             p \in Tracked /\ consumer[p] = "detached" /\ feed[p] = "closed"

\* C8: when the process has ended after teardown began, del_consumer and
\* del_seis were both called on every tracked subscription.
C8_TeardownAttemptsBothSteps ==
    pc \in Ended /\ signals > 0 =>
       \A p \in Tracked : del_calls[p].consumer >= 1 /\ del_calls[p].seis >= 1

\* C9: no symbol ever has two open feeds or two attached consumers.
C9_OneSubscriptionPerSymbol ==
    \A s \in Symbols :
       /\ Cardinality({ p \in 1..Len(selected_stocks) :
                          selected_stocks[p] = s /\ feed[p] = "open" }) <= 1
       /\ Cardinality({ p \in 1..Len(selected_stocks) :
                          selected_stocks[p] = s /\ consumer[p] = "attached" }) <= 1

\* C10: the batch returns only with every unit done, and once stop_flag is
\* set no unit that has not started is started.
C10_CooperativeCancel ==
    [][/\ pc' = "log" => \A i \in Units : unit'[i] = "done"
       /\ stop_flag => \A i \in Units : unit[i] # "running" => unit'[i] # "running"]_vars

\* C11: the units in flight are never more than the pool size the executor
\* was built with, which is never more than MAX_WORKERS; the units beyond it
\* wait in the queue.
C11_BoundedPool ==
    /\ Cardinality(Running) <= max_workers
    /\ max_workers <= MAX_WORKERS

\* the pool is full and a submitted unit waits
C11_Witness ==
    /\ Cardinality(Running) = max_workers
    /\ \E i \in Units : unit[i] = "pending"

\* C12: a run on an empty universe list that no signal interrupts ends with
\* a non-zero status, having screened and subscribed nothing.
C12_EmptyUniverseFailsFast ==
    stock_symbols = <<>> /\ signals = 0 /\ pc \in Ended =>
       /\ exit_code # 0
       /\ submitted = 0
       /\ seis_list = <<>>

\* C13: stop_flag is never cleared, and however many signals are delivered
\* teardown runs once: no subscription has del_consumer or del_seis called
\* on it twice.
C13_StopsOnce ==
    [][/\ stop_flag => stop_flag'
       /\ \A p \in DOMAIN del_calls :
             del_calls'[p].consumer <= 1 /\ del_calls'[p].seis <= 1]_vars

\* unit i is done and its fetch returned nothing, returned an empty frame or
\* raised
Unfetched(i) ==
    /\ unit[i] = "done"
    /\ ResponseOf(i).kind \in {"none", "empty", "raise"}

\* C14: what a unit returns for a symbol whose fetch gave nothing differs
\* from what a unit returns for a symbol that was evaluated and failed the
\* predicate.
C14_UnavailableDistinctFromFail ==
    \A i, j \in Units :
       Unfetched(i) /\ Evaluated(j) /\ ~Satisfies(SymbolOf(j))
          => result[i] # result[j]

\* C15: an error of new_seis or new_consumer does not end the process: a run
\* that no signal interrupts never dies of an exception.
C15_SubscriptionErrorsRecovered ==
    signals = 0 => pc # "crashed"

\* C16: a feed is only ever opened for an entry of the pass-list, whose
\* symbol passed the screening, and only when every unit of the batch is done
\* and has been handled by the loop.
C16_SubscribeAfterPass ==
    \A p \in DOMAIN feed :
       feed[p] # "none" =>
          /\ p <= Len(selected_stocks)
          /\ \E i \in Units : SymbolOf(i) = selected_stocks[p] /\ result[i] = SymbolOf(i)
          /\ Satisfies(selected_stocks[p])
          /\ \A i \in Units : unit[i] = "done" /\ i \in collected

\* a feed is open for the one symbol of two that passed
C16_Witness ==
    /\ Len(stock_symbols) = 2
    /\ Len(selected_stocks) = 1
    /\ feed[1] = "open"

\* every tracked subscription has had del_consumer and del_seis called on it
WalkComplete ==
    \A p \in Tracked : del_calls[p].consumer >= 1 /\ del_calls[p].seis >= 1

\* C17: a handler frame reaches sys.exit(0), and the process exits with the
\* handler's status 0, only with stop_flag set and the walk over seis_list
\* complete.
C17_ExitAfterTeardown ==
    /\ \A f \in 1..Len(handler) : handler[f].step = "exit" => stop_flag /\ WalkComplete
    /\ pc = "exited" /\ signals > 0 => stop_flag /\ WalkComplete

\* the process has exited through the handler with two subscriptions tracked
C17_Witness ==
    /\ pc = "exited"
    /\ signals > 0
    /\ Len(seis_list) = 2
    /\ WalkComplete

C19_BatchInterruptDrains ==
    /\ pc \in Ended /\ signals <= 1 => \A i \in 1..submitted : unit[i] = "done"
    /\ pending_exc # "none" =>
          /\ signals > 0
          /\ seis_list = <<>>
          /\ \A p \in DOMAIN feed : feed[p] = "none" /\ consumer[p] = "none"
          /\ \A p \in DOMAIN del_calls : del_calls[p].consumer = 0 /\ del_calls[p].seis = 0

\* the signal came with both units submitted and not done; the process has
\* exited, a unit that passed was never subscribed
C19_Witness ==
    /\ pc = "exited"
    /\ signals = 1
    /\ pending_exc = "SystemExit"
    /\ submitted = 2
    /\ collected = {}
    /\ \E i \in Units : result[i] = SymbolOf(i)

\* C20: every entry of seis_list has had its feed opened and its consumer
\* attached, seis_list is never longer than the pass-list, and no step
\* removes or changes an entry of seis_list.
C20_TrackedAfterAttach ==
    /\ [](/\ \A p \in Tracked : feed[p] # "none" /\ consumer[p] # "none"
          /\ Len(seis_list) <= Len(selected_stocks))
    /\ [][/\ Len(seis_list') >= Len(seis_list)
          /\ SubSeq(seis_list', 1, Len(seis_list)) = seis_list]_vars

\* teardown has closed both tracked feeds and both entries are still there
C20_Witness ==
    /\ Len(seis_list) = 2
    /\ \A p \in Tracked : feed[p] = "closed" /\ consumer[p] = "detached"

====
